---- MODULE Spec2Model ----
(***************************************************************************)
(* Model of homework.py: a bot that polls the homework-review API every    *)
(* RETRY_PERIOD seconds and relays status changes to a Telegram chat.      *)
(*                                                                         *)
(* Texts are modelled as sequences of symbols.  Every fixed literal of the *)
(* program (a template head, a verdict phrase, an error phrase) is one     *)
(* symbol; the variable parts (homework_name, status) are sequences of     *)
(* one-character symbols.  Python's `a in b` on strings is the contiguous  *)
(* sub-sequence test IsIn(a, b).                                           *)
(***************************************************************************)
EXTENDS Integers, Sequences, FiniteSets, TLC

\* ------------------------------------------------------------------ bounds
MaxPolls == 3            \* number of loop iterations explored
StartTime == 1000        \* wall-clock reading when the process starts

\* --------------------------------------------------------------- constants
RETRY_PERIOD == 600
HTTP_OK == 200

\* ------------------------------------------------------------------- texts
\* 'Изменился статус проверки работы "'
T_HEAD == "Changed status of work \""
\* '". '
T_MID == "\". "
\* 'Нет новых статусов'
T_NO_NEW == "No new statuses"
\* 'Сбой в работе программы: '
T_FAIL == "Program failure: "
\* 'Неизвестный статус работы - '
T_UNKNOWN == "Unknown work status - "
\* str(None)
T_NONE == "None"
\* "'Нет ключа homework_name в ответе API'"  (str() of a KeyError is the repr)
T_NO_NAME == "'No key homework_name in API response'"
\* 'Нет ключа homeworks в ответе API'
T_NO_KEY == "No key homeworks in API response"
\* 'Ожидался ответ API в формате dict, получен '
T_NOT_DICT == "Expected API response as dict, got "
\* 'Ожидался список (list) в ключе "homeworks", получен '
T_NOT_LIST == "Expected list under key homeworks, got "
\* 'Ответ API не возвращает 200. Код ответа: 503. Причина: ... Текст: ...'
T_BAD_CODE == "API response is not 200. Code: 503."
\* str() of WrongResponseCode(message, request_error): the repr of the pair
T_REQUEST == "('API does not return 200. Request: ...', ConnectionError())"
\* "'list' object has no attribute 'get'"
T_NO_GET == "'list' object has no attribute 'get'"

\* `m in p` for Python strings
IsIn(m, p) ==
    \E i \in 0..(Len(p) - Len(m)) : SubSeq(p, i + 1, i + Len(m)) = m

\* ------------------------------------------------------------- exceptions
NoExc == [cls |-> "None", text |-> <<>>]
Raise(c, t) == [cls |-> c, text |-> t]

\* classes defined in the project's exceptions module that may derive from
\* NotForSend or TelegramError
ProjectErrors == {"WrongResponseCode", "EmptyResponseFromAPI"}

\* ----------------------------------------------------------------- inputs
\* 'Работа проверена: ревьюеру всё понравилось. Ура!', 'Работа взята на
\* проверку ревьюером.', 'Работа проверена: у ревьюера есть замечания.'
HOMEWORK_VERDICTS_Swapped ==
    (<<"approved">> :> "Work taken for review by the reviewer.")
    @@ (<<"reviewing">> :> "Work checked: the reviewer liked everything. Hurray!")
    @@ (<<"rejected">> :> "Work checked: the reviewer has remarks.")

HOMEWORK_VERDICTS ==
    (<<"approved">> :> "Work checked: the reviewer liked everything. Hurray!")
    @@ (<<"reviewing">> :> "Work taken for review by the reviewer.")
    @@ (<<"rejected">> :> "Work checked: the reviewer has remarks.")
KnownStatuses == DOMAIN HOMEWORK_VERDICTS
UnknownStatuses == {<<"x">>, <<"x", "y">>}
\* a current_date far ahead of the wall clock
Dates == {5000}

\* the API's current_date when nothing is wrong with its clock
NormalDate == 1600

Homeworks ==
    [has_name : {TRUE}, homework_name : {<<"a">>},
     has_status : {TRUE},
     status : {<<"approved">>, <<"reviewing">>} \cup UnknownStatuses]
    \cup [has_name : {TRUE}, homework_name : {<<"b">>},
          has_status : {TRUE}, status : {<<"approved">>}]
    \cup [has_name : {FALSE}, homework_name : {<<>>},
          has_status : {TRUE}, status : {<<"approved">>}]
    \cup [has_name : {TRUE}, homework_name : {<<"a">>},
          has_status : {FALSE}, status : {<<>>}]

OlderHomework ==
    [has_name |-> TRUE, homework_name |-> <<"b">>,
     has_status |-> TRUE, status |-> <<"rejected">>]

NewerHomework ==
    [has_name |-> TRUE, homework_name |-> <<"a">>,
     has_status |-> TRUE, status |-> <<"approved">>]

HomeworkLists ==
    {<<>>} \cup {<<h>> : h \in Homeworks}
           \cup {<<NewerHomework, OlderHomework>>}

\* parsed JSON bodies: a list; a mapping without `homeworks`; a mapping
\* without `current_date`; a mapping whose `homeworks` is a mapping; the
\* well-formed ones, and well-formed ones with other dates
Bodies ==
    [type : {"list"}, has_hw : {FALSE}, hw_type : {"list"},
     homeworks : {<<>>}, has_cd : {FALSE}, current_date : {0}]
    \cup [type : {"dict"}, has_hw : {FALSE}, hw_type : {"list"},
          homeworks : {<<>>}, has_cd : {TRUE}, current_date : {NormalDate}]
    \cup [type : {"dict"}, has_hw : {TRUE}, hw_type : {"list"},
          homeworks : {<<>>}, has_cd : {FALSE}, current_date : {0}]
    \cup [type : {"dict"}, has_hw : {TRUE}, hw_type : {"dict"},
          homeworks : {<<>>}, has_cd : {TRUE}, current_date : {NormalDate}]
    \cup [type : {"dict"}, has_hw : {TRUE}, hw_type : {"list"},
          homeworks : HomeworkLists, has_cd : {TRUE},
          current_date : {NormalDate}]
    \cup [type : {"dict"}, has_hw : {TRUE}, hw_type : {"list"},
          homeworks : {<<>>}, has_cd : {TRUE}, current_date : Dates]

NoBody ==
    [type |-> "list", has_hw |-> FALSE, hw_type |-> "list",
     homeworks |-> <<>>, has_cd |-> FALSE, current_date |-> 0]

\* what requests.get does: fail in transport, or answer with a status code
ApiOutcomes ==
    [kind : {"transport"}, status_code : {0}, body : {NoBody}]
    \cup [kind : {"http"}, status_code : {503}, body : {NoBody}]
    \cup [kind : {"http"}, status_code : {HTTP_OK}, body : Bodies]

\* what bot.send_message does
Deliveries == {"ok", "telegram.error.TelegramError"}

\* arguments for the helpers called on their own: bodies of every shape,
\* and homework mappings with and without each key
PureBodies ==
    [type : {"dict", "list", "str"}, has_hw : BOOLEAN,
     hw_type : {"list", "dict", "str"},
     homeworks : {<<>>, <<NewerHomework>>},
     has_cd : BOOLEAN, current_date : {NormalDate}]

PureHomeworks ==
    [has_name : BOOLEAN, homework_name : {<<"a">>, <<"b">>, <<"a", "b">>},
     has_status : BOOLEAN, status : KnownStatuses \cup UnknownStatuses]

NoCall == [fn |-> "none", response |-> NoBody, homework |-> NewerHomework]
NoRet == [state |-> "idle", exc |-> NoExc, val |-> <<>>]

\* values of an environment variable: unset, empty, set
TokenValues == {"None", "", "token"}
\* a bot token may also be set to something telegram.Bot rejects
BotTokenValues == TokenValues \cup {"malformed"}

\* ------------------------------------------------------------------ state
VARIABLES
    PRACTICUM_TOKEN, TELEGRAM_TOKEN, TELEGRAM_CHAT_ID,  \* module globals
    not_for_send,       \* project error classes deriving from NotForSend/TelegramError
    pc,                 \* position of main: start, try, except, finally, stopped
    current_timestamp,  \* the polling cursor
    prev_msg,           \* the stored previous text
    now,                \* wall clock, int(time.time())
    exc,                \* exception in flight
    cur,                \* record of the iteration in progress
    last,               \* record of the iteration before it
    sendLog,            \* texts of the send attempts made inside the loop
    polled,             \* first entries of the validated homeworks lists
    lastDelivery,       \* how the latest send attempt ended
    startupSends,       \* send attempts made before the loop
    nFetch, nSleep,     \* calls of get_api_answer and of time.sleep
    nReport,            \* runs of the catch-all handler
    nCritical,          \* logging.critical calls
    call,               \* a helper called on its own, with its argument
    ret                 \* what that call returned or raised

vars == <<PRACTICUM_TOKEN, TELEGRAM_TOKEN, TELEGRAM_CHAT_ID, not_for_send, pc,
          current_timestamp, prev_msg, now, exc, cur, last, sendLog, polled,
          lastDelivery, startupSends, nFetch, nSleep, nReport, nCritical, call, ret>>

env == <<PRACTICUM_TOKEN, TELEGRAM_TOKEN, TELEGRAM_CHAT_ID, not_for_send,
         call, ret>>

\* ---------------------------------------------------------------- helpers
\* send_message: a telegram.error.TelegramError of bot.send_message is caught
\* and logged; the result is the exception that leaves the function
SendMessageCatches_None == {}

SendMessageCatches == {"telegram.error.TelegramError"}

send_message(delivery) ==
    IF delivery = "ok" \/ delivery \in SendMessageCatches
    THEN NoExc
    ELSE Raise(delivery, <<delivery>>)

get_api_answer_NoFallback(timestamp_arg, clock, api) ==
    [from_date |-> timestamp_arg,
     exc |-> IF api.kind = "transport"
             THEN Raise("WrongResponseCode", <<T_REQUEST>>)
             ELSE IF api.status_code # HTTP_OK
                  THEN Raise("WrongResponseCode", <<T_BAD_CODE>>)
                  ELSE NoExc,
     val |-> api.body]

\* get_api_answer: the request's from_date, and the body or the exception
get_api_answer(timestamp_arg, clock, api) ==
    LET timestamp == IF timestamp_arg # 0 THEN timestamp_arg ELSE clock
    IN  [from_date |-> timestamp,
         exc |-> IF api.kind = "transport"
                 THEN Raise("WrongResponseCode", <<T_REQUEST>>)
                 ELSE IF api.status_code # HTTP_OK
                      THEN Raise("WrongResponseCode", <<T_BAD_CODE>>)
                      ELSE NoExc,
         val |-> api.body]

check_response_TypeFirst(response) ==
    IF response.type # "dict"
    THEN [exc |-> Raise("TypeError", <<T_NOT_DICT, response.type>>),
          val |-> <<>>]
    ELSE IF response.has_hw /\ response.hw_type # "list"
    THEN [exc |-> Raise("TypeError", <<T_NOT_LIST, response.hw_type>>),
          val |-> <<>>]
    ELSE IF ~response.has_hw \/ ~response.has_cd
    THEN [exc |-> Raise("EmptyResponseFromAPI", <<T_NO_KEY>>), val |-> <<>>]
    ELSE [exc |-> NoExc, val |-> response.homeworks]

check_response(response) ==
    IF response.type # "dict"
    THEN [exc |-> Raise("TypeError", <<T_NOT_DICT, response.type>>),
          val |-> <<>>]
    ELSE IF ~response.has_hw \/ ~response.has_cd
    THEN [exc |-> Raise("EmptyResponseFromAPI", <<T_NO_KEY>>), val |-> <<>>]
    ELSE IF response.hw_type # "list"
    THEN [exc |-> Raise("TypeError", <<T_NOT_LIST, response.hw_type>>),
          val |-> <<>>]
    ELSE [exc |-> NoExc, val |-> response.homeworks]

parse_status_StatusFirst(homework) ==
    IF ~homework.has_status
    THEN [exc |-> Raise("ValueError", <<T_UNKNOWN, T_NONE>>), val |-> <<>>]
    ELSE IF homework.status \notin DOMAIN HOMEWORK_VERDICTS
    THEN [exc |-> Raise("ValueError", <<T_UNKNOWN>> \o homework.status),
          val |-> <<>>]
    ELSE IF ~homework.has_name
    THEN [exc |-> Raise("KeyError", <<T_NO_NAME>>), val |-> <<>>]
    ELSE [exc |-> NoExc,
          val |-> <<T_HEAD>> \o homework.homework_name
                  \o <<T_MID, HOMEWORK_VERDICTS[homework.status]>>]

parse_status(homework) ==
    IF ~homework.has_name
    THEN [exc |-> Raise("KeyError", <<T_NO_NAME>>), val |-> <<>>]
    ELSE IF ~homework.has_status
    THEN [exc |-> Raise("ValueError", <<T_UNKNOWN, T_NONE>>), val |-> <<>>]
    ELSE IF homework.status \notin DOMAIN HOMEWORK_VERDICTS
    THEN [exc |-> Raise("ValueError", <<T_UNKNOWN>> \o homework.status),
          val |-> <<>>]
    ELSE [exc |-> NoExc,
          val |-> <<T_HEAD>> \o homework.homework_name
                  \o <<T_MID, HOMEWORK_VERDICTS[homework.status]>>]

check_tokens_Any(practicum, bot_token, chat) ==
    \E t \in {practicum, bot_token, chat} : t \notin {"None", ""}

check_tokens(practicum, bot_token, chat) ==
    \A t \in {practicum, bot_token, chat} : t \notin {"None", ""}

\* ---------------------------------------------------------- the loop body
\* homeworks[:1]: what the loop looks at in the validated list
Head1(homeworks) == IF homeworks = <<>> THEN <<>> ELSE <<homeworks[1]>>

\* does the dedup test let `message` through
ShouldSend_Always(message, prev) == TRUE

ShouldSend_NotFirst(message, prev) ==
    prev # <<>> /\ message # prev /\ ~IsIn(message, prev)

ShouldSend(message, prev) == message # prev /\ ~IsIn(message, prev)

Notify_KeepsPrev(message, prev, delivery) ==
    IF ShouldSend(message, prev)
    THEN [exc |-> send_message(delivery), sent |-> <<message>>,
          prev_msg |-> prev]
    ELSE [exc |-> NoExc, sent |-> <<>>, prev_msg |-> prev]

\* lines 141-145: the dedup test, the send and the update of prev_msg
Notify(message, prev, delivery) ==
    IF ShouldSend(message, prev)
    THEN LET s == send_message(delivery)
         IN  [exc |-> s, sent |-> <<message>>,
              prev_msg |-> IF s = NoExc THEN message ELSE prev]
    ELSE [exc |-> NoExc, sent |-> <<>>, prev_msg |-> prev]

\* lines 131-133: response.get('current_date', int(time.time()))
Advance_WallClock(response, clock) == clock

Advance(response, clock) ==
    IF response.has_cd THEN response.current_date ELSE clock

\* lines 130-145: the body of the inner try, run against one answer of the
\* API and one behaviour of the bot; `stage` is the statement it ended in
TryBody(timestamp_arg, prev, clock, api, delivery) ==
    LET fetched == get_api_answer(timestamp_arg, clock, api)
        response == fetched.val
        base == [from_date |-> fetched.from_date,
                 current_timestamp |-> timestamp_arg, prev_msg |-> prev,
                 exc |-> NoExc, sent |-> <<>>, first |-> <<>>,
                 has_cd |-> FALSE, current_date |-> 0, stage |-> "fetch"]
    IN  IF fetched.exc # NoExc
        THEN [base EXCEPT !.exc = fetched.exc]
        ELSE IF response.type # "dict"
        THEN [base EXCEPT !.exc = Raise("AttributeError", <<T_NO_GET>>),
                          !.stage = "advance"]
        ELSE
        LET advanced == Advance(response, clock)
            checked == check_response(response)
            homeworks == checked.val
            moved == [base EXCEPT !.current_timestamp = advanced,
                                  !.has_cd = response.has_cd,
                                  !.current_date = response.current_date,
                                  !.stage = "validate"]
        IN  IF checked.exc # NoExc
            THEN [moved EXCEPT !.exc = checked.exc]
            ELSE
            LET parsed == IF homeworks = <<>>
                          THEN [exc |-> NoExc, val |-> <<T_NO_NEW>>]
                          ELSE parse_status(homeworks[1])
                valid == [moved EXCEPT !.first = Head1(homeworks),
                                       !.stage = "parse"]
            IN  IF parsed.exc # NoExc
                THEN [valid EXCEPT !.exc = parsed.exc]
                ELSE
                LET n == Notify(parsed.val, prev, delivery)
                IN  [valid EXCEPT !.exc = n.exc, !.sent = n.sent,
                                  !.prev_msg = n.prev_msg,
                                  !.stage = "done"]

\* the record kept of an iteration
NoIteration ==
    [arg |-> 0, from_date |-> 0, cursor_before |-> 0, prev_before |-> <<>>,
     clock |-> 0, has_cd |-> FALSE, current_date |-> 0,
     stage |-> "none", first |-> <<>>, sent |-> <<>>, error |-> NoExc,
     handler |-> "none"]

\* what is kept of an iteration once the next one has started
Summary(it) ==
    [arg |-> it.arg, prev_before |-> it.prev_before, stage |-> it.stage,
     first |-> it.first, sent |-> it.sent, error |-> it.error,
     handler |-> it.handler]

\* ------------------------------------------------------------------ Init
Init ==
    /\ PRACTICUM_TOKEN \in TokenValues
    /\ TELEGRAM_TOKEN \in BotTokenValues
    /\ TELEGRAM_CHAT_ID \in TokenValues
    /\ not_for_send \in SUBSET ProjectErrors
    /\ pc = "start"
    /\ current_timestamp = 0
    /\ prev_msg = <<>>
    /\ now = StartTime
    /\ exc = NoExc
    /\ cur = NoIteration
    /\ last = Summary(NoIteration)
    /\ sendLog = <<>>
    /\ polled = {}
    /\ lastDelivery = "none"
    /\ startupSends = 0
    /\ nFetch = 0
    /\ nSleep = 0
    /\ nReport = 0
    /\ nCritical = 0
    /\ call = NoCall
    /\ ret = NoRet

\* ---------------------------------------------------------------- actions
\* lines 119-127 and 165-166: the startup phase of main
Startup(delivery) ==
    /\ pc = "start"
    /\ IF ~check_tokens(PRACTICUM_TOKEN, TELEGRAM_TOKEN, TELEGRAM_CHAT_ID)
          \/ TELEGRAM_TOKEN = "malformed"
       THEN /\ pc' = "stopped"
            /\ nCritical' = nCritical + 1
            /\ UNCHANGED <<startupSends, lastDelivery>>
       ELSE /\ startupSends' = startupSends + 1
            /\ lastDelivery' = delivery
            /\ IF send_message(delivery) = NoExc
               THEN pc' = "try" /\ UNCHANGED nCritical
               ELSE pc' = "stopped" /\ nCritical' = nCritical + 1
    /\ current_timestamp' = 0
    /\ prev_msg' = <<>>
    /\ UNCHANGED <<env, now, exc, cur, last, sendLog, polled, nFetch, nSleep,
                   nReport>>

\* lines 129-145: one pass through the inner try
Poll(api, delivery) ==
    /\ pc = "try"
    /\ nFetch < MaxPolls
    /\ LET r == TryBody(current_timestamp, prev_msg, now, api, delivery)
       IN  /\ current_timestamp' = r.current_timestamp
           /\ prev_msg' = r.prev_msg
           /\ exc' = r.exc
           /\ pc' = IF r.exc = NoExc THEN "finally" ELSE "except"
           /\ last' = Summary(cur)
           /\ cur' = [arg |-> current_timestamp, from_date |-> r.from_date,
                      cursor_before |-> current_timestamp,
                      prev_before |-> prev_msg, clock |-> now,
                      has_cd |-> r.has_cd, current_date |-> r.current_date,
                      stage |-> r.stage,
                      first |-> r.first, sent |-> r.sent, error |-> r.exc,
                      handler |-> "none"]
           /\ sendLog' = sendLog \o r.sent
           /\ polled' = IF r.stage \in {"parse", "done"}
                        THEN polled \cup {r.first} ELSE polled
           /\ lastDelivery' = IF r.sent # <<>> THEN delivery ELSE lastDelivery
    /\ nFetch' = nFetch + 1
    /\ UNCHANGED <<env, now, startupSends, nSleep, nReport, nCritical>>

\* is the exception an instance of NotForSend or of the project's TelegramError
IsNotForSend(e) == e.cls \in not_for_send

\* lines 147-149: the handler logs the error and nothing else
LogOnly ==
    /\ pc = "except"
    /\ IsNotForSend(exc)
    /\ exc' = NoExc
    /\ cur' = [cur EXCEPT !.handler = "silent"]
    /\ UNCHANGED <<env, current_timestamp, now, last, sendLog, polled,
                   lastDelivery, startupSends, nFetch, nSleep, nReport,
                   nCritical>>

HandleNotForSend_Forgets ==
    /\ LogOnly
    /\ pc' = "finally"
    /\ prev_msg' = <<>>

HandleNotForSend_Continue ==
    /\ LogOnly
    /\ pc' = "try"
    /\ UNCHANGED prev_msg

\* lines 147-149: except (NotForSend, TelegramError)
HandleNotForSend ==
    /\ LogOnly
    /\ pc' = "finally"
    /\ UNCHANGED prev_msg

ShouldReport_Always(message, prev) == TRUE

ShouldReport_NotEqual(message, prev) == message # prev

\* does the catch-all handler notify the operator
ShouldReport(message, prev) == ~IsIn(message, prev)

Report_StoresIfSent(delivery) ==
    /\ pc = "except"
    /\ ~IsNotForSend(exc)
    /\ LET message == <<T_FAIL>> \o exc.text
           attempt == ShouldReport(message, prev_msg)
       IN  /\ sendLog' = IF attempt THEN Append(sendLog, message) ELSE sendLog
           /\ lastDelivery' = IF attempt THEN delivery ELSE lastDelivery
           /\ cur' = [cur EXCEPT !.handler = "report",
                        !.sent = IF attempt THEN Append(@, message) ELSE @]
           /\ prev_msg' = IF attempt THEN message ELSE prev_msg
           /\ exc' = NoExc
    /\ pc' = "finally"
    /\ nReport' = nReport + 1
    /\ UNCHANGED <<env, now, last, polled, startupSends, nFetch, nSleep,
                   nCritical>>

\* lines 152-162: the error text, the guarded send and prev_msg = message
Report(delivery) ==
    /\ pc = "except"
    /\ ~IsNotForSend(exc)
    /\ LET message == <<T_FAIL>> \o exc.text
           attempt == ShouldReport(message, prev_msg)
           s == IF attempt THEN send_message(delivery) ELSE NoExc
       IN  /\ sendLog' = IF attempt THEN Append(sendLog, message) ELSE sendLog
           /\ lastDelivery' = IF attempt THEN delivery ELSE lastDelivery
           /\ cur' = [cur EXCEPT !.handler = "report",
                        !.sent = IF attempt THEN Append(@, message) ELSE @]
           \* an exception of send_message that is not the project's
           \* TelegramError leaves the handler before line 162
           /\ IF s = NoExc \/ IsNotForSend(s)
              THEN prev_msg' = message /\ exc' = NoExc
              ELSE prev_msg' = prev_msg /\ exc' = s
    /\ pc' = "finally"
    /\ nReport' = nReport + 1
    /\ UNCHANGED <<env, now, last, polled, startupSends, nFetch, nSleep,
                   nCritical>>

HandleException_Advancing(delivery) ==
    /\ Report(delivery)
    /\ current_timestamp' = now

\* lines 151-162: except Exception
HandleException(delivery) ==
    /\ Report(delivery)
    /\ UNCHANGED current_timestamp

\* lines 163-166: the finally clause; an exception still in flight after it
\* reaches the outer handler, which logs it and lets main return
Sleep ==
    /\ pc = "finally"
    /\ now' = now + RETRY_PERIOD
    /\ nSleep' = nSleep + 1
    /\ IF exc = NoExc
       THEN pc' = "try" /\ UNCHANGED nCritical
       ELSE pc' = "stopped" /\ nCritical' = nCritical + 1
    /\ exc' = NoExc
    /\ UNCHANGED <<env, current_timestamp, prev_msg, cur, last, sendLog,
                   polled, lastDelivery, startupSends, nFetch, nReport>>

Next ==
    \/ \E d \in Deliveries : Startup(d)
    \/ \E a \in ApiOutcomes, d \in Deliveries : Poll(a, d)
    \/ HandleNotForSend
    \/ \E d \in Deliveries : HandleException(d)
    \/ Sleep

Spec == Init /\ [][Next]_vars

\* ------------------------------------------- the helpers called on their own
\* main before its first statement, with the credentials set
MainIdle ==
    /\ PRACTICUM_TOKEN = "token"
    /\ TELEGRAM_TOKEN = "token"
    /\ TELEGRAM_CHAT_ID = "token"
    /\ not_for_send = {}
    /\ pc = "start"
    /\ current_timestamp = 0
    /\ prev_msg = <<>>
    /\ now = StartTime
    /\ exc = NoExc
    /\ cur = NoIteration
    /\ last = Summary(NoIteration)
    /\ sendLog = <<>>
    /\ polled = {}
    /\ lastDelivery = "none"
    /\ startupSends = 0
    /\ nFetch = 0
    /\ nSleep = 0
    /\ nReport = 0
    /\ nCritical = 0

main == <<PRACTICUM_TOKEN, TELEGRAM_TOKEN, TELEGRAM_CHAT_ID, not_for_send, pc,
          current_timestamp, prev_msg, now, exc, cur, last, sendLog, polled,
          lastDelivery, startupSends, nFetch, nSleep, nReport, nCritical>>

PureInit ==
    /\ MainIdle
    /\ ret = NoRet
    /\ \/ \E r \in PureBodies :
            call = [fn |-> "check_response", response |-> r,
                    homework |-> NewerHomework]
       \/ \E h \in PureHomeworks :
            call = [fn |-> "parse_status", response |-> NoBody,
                    homework |-> h]

\* check_response(response), lines 74-89
CallCheckResponse ==
    /\ call.fn = "check_response"
    /\ ret.state = "idle"
    /\ LET c == check_response(call.response)
       IN  ret' = [state |-> "returned", exc |-> c.exc, val |-> c.val]
    /\ UNCHANGED <<main, call>>

\* parse_status(homework), lines 92-104
CallParseStatus ==
    /\ call.fn = "parse_status"
    /\ ret.state = "idle"
    /\ LET c == parse_status(call.homework)
       IN  ret' = [state |-> "returned", exc |-> c.exc, val |-> c.val]
    /\ UNCHANGED <<main, call>>

PureNext == CallCheckResponse \/ CallParseStatus

PureSpec == PureInit /\ [][PureNext]_vars

TypeOK ==
    /\ pc \in {"start", "try", "except", "finally", "stopped"}
    /\ current_timestamp \in Int
    /\ nFetch \in 0..MaxPolls

\* ------------------------------------------------------------- properties
\* the rendered text of a homework whose name and status are accepted
StatusText(h) == parse_status(h).val
Renders(h) == parse_status(h).exc = NoExc
Occurrences(m) == Cardinality({i \in DOMAIN sendLog : sendLog[i] = m})

\* the two latest iterations both rendered the same homework record
SameRecordTwice ==
    /\ last.stage = "done" /\ cur.stage = "done"
    /\ last.first # <<>> /\ cur.first = last.first

\* C1: when two consecutive iterations both fetch, validate and render the
\* same first homework record, the first one sends its text exactly when the
\* stored previous text does not contain it, and the second one sends nothing.
C1_DedupLaw ==
    SameRecordTwice =>
        LET m == StatusText(cur.first[1])
        IN  /\ cur.sent = <<>>
            /\ last.sent = IF IsIn(m, last.prev_before) THEN <<>> ELSE <<m>>
            /\ Len(last.sent) + Len(cur.sent) <= 1

C1_Witness == SameRecordTwice /\ last.sent # <<>> /\ cur.sent = <<>>

\* the iteration in progress validated a response with no homeworks
EmptyPoll == cur.stage = "done" /\ cur.first = <<>>

\* C2 as stated: an iteration whose validated response has an empty homeworks
\* sequence makes no send attempt, whatever the stored previous text is.
C2_NoSendOnEmpty == EmptyPoll => cur.sent = <<>>

\* C2 amended: an iteration whose validated response has an empty homeworks
\* sequence sends the fixed text exactly when the stored previous text does
\* not contain it, and stores it; otherwise it only logs.  Either way the
\* iteration goes on to the sleep.
C2_EmptySentOnce ==
    EmptyPoll =>
        /\ cur.sent = IF IsIn(<<T_NO_NEW>>, cur.prev_before)
                      THEN <<>> ELSE << <<T_NO_NEW>> >>
        /\ cur.sent # <<>> => prev_msg = <<T_NO_NEW>>
        /\ cur.sent = <<>> => prev_msg = cur.prev_before
        /\ pc \in {"finally", "try"}

C2_Witness ==
    /\ EmptyPoll /\ cur.sent = <<>>
    /\ last.stage = "done" /\ last.sent = << <<T_NO_NEW>> >>

\* C3: an iteration whose fetch fails leaves the cursor as it was, does not
\* stop the loop, is followed by the sleep, and the next iteration calls the
\* fetch with the same cursor value.
C3_FetchFailureKeepsCursor ==
    /\ cur.stage = "fetch" =>
          /\ current_timestamp = cur.cursor_before
          /\ pc # "stopped"
          /\ pc = "try" => nSleep = nFetch
    /\ last.stage = "fetch" =>
          /\ cur.arg = last.arg
          /\ nSleep >= nFetch - 1

C3_Witness ==
    /\ last.stage = "fetch" /\ last.arg # 0 /\ last.handler = "report"
    /\ cur.stage = "done"

MissingCredential ==
    \E t \in {PRACTICUM_TOKEN, TELEGRAM_TOKEN, TELEGRAM_CHAT_ID} :
        t \in {"None", ""}

\* C4: with a credential absent or empty the process never enters the loop:
\* no fetch, no send attempt, no sleep, and once it has stopped a critical
\* log line has been written.
C4_MissingCredentialStops ==
    MissingCredential =>
        /\ pc \in {"start", "stopped"}
        /\ nFetch = 0 /\ nSleep = 0
        /\ startupSends = 0 /\ sendLog = <<>>
        /\ pc = "stopped" => nCritical = 1

C4_Witness ==
    /\ pc = "stopped"
    /\ PRACTICUM_TOKEN = "token" /\ TELEGRAM_TOKEN = "" /\ TELEGRAM_CHAT_ID = "token"

\* the two latest iterations rendered the same homework, first as
\* 'reviewing' and then as 'approved'
ReviewingThenApproved ==
    /\ last.stage = "done" /\ cur.stage = "done"
    /\ last.first # <<>> /\ cur.first # <<>>
    /\ last.first[1].homework_name = cur.first[1].homework_name
    /\ last.first[1].status = <<"reviewing">>
    /\ cur.first[1].status = <<"approved">>

\* C5: when a poll reports a homework as 'reviewing' and the next poll
\* reports the same homework as 'approved', the second iteration makes
\* exactly one send attempt, carrying the approved verdict for that name.
C5_TransitionNotified ==
    ReviewingThenApproved =>
        cur.sent = << <<T_HEAD>> \o cur.first[1].homework_name
                      \o <<T_MID, "Work checked: the reviewer liked everything. Hurray!">> >>

C5_Witness == ReviewingThenApproved /\ pc = "try"

\* C6 as stated: the cursor after an iteration is never below the cursor
\* before it, whatever current_date the API returns.
C6_CursorNonDecreasing == current_timestamp >= cur.cursor_before

\* C6 amended: an iteration leaves the cursor unchanged when the fetch fails
\* or the body is not a mapping; otherwise the cursor becomes the response's
\* current_date, or the wall-clock time when the key is absent, even if that
\* value is below the previous cursor.
C6_CursorFollowsApi ==
    /\ cur.stage \in {"none", "fetch", "advance"} =>
          current_timestamp = cur.cursor_before
    /\ cur.stage \in {"validate", "parse", "done"} =>
          current_timestamp = IF cur.has_cd THEN cur.current_date
                                            ELSE cur.clock

C6_Witness ==
    /\ cur.stage = "done" /\ cur.has_cd
    /\ current_timestamp < cur.cursor_before

\* C7: the process stops only in the startup phase; once the loop has been
\* entered no outcome of fetch, validation, parsing or delivery stops it.
C7_LoopNeverStops ==
    pc = "stopped" => nFetch = 0 /\ nSleep = 0 /\ sendLog = <<>>

C7_Witness ==
    /\ pc = "try" /\ nFetch > 0
    /\ cur.handler = "report" /\ cur.sent # <<>>
    /\ lastDelivery = "telegram.error.TelegramError"

\* C8 as stated: two consecutive send attempts made inside the loop never
\* carry the same text.
C8_NoRepeatedSend ==
    \A i \in 1..(Len(sendLog) - 1) : sendLog[i] # sendLog[i + 1]

\* C9 as stated: while every validated poll reports the same first homework
\* with the same status, its status text is sent at most once, whatever
\* errors occur in between.
C9_SentAtMostOnce ==
    \A h \in Homeworks :
        (Renders(h) /\ polled \subseteq {<<h>>}) =>
            Occurrences(StatusText(h)) <= 1

\* C9 amended: while every validated poll reports the same first homework
\* with the same status and no iteration has ended in the catch-all handler
\* (errors handled as do-not-alert may occur), its status text is sent at
\* most once.
C9_SentOnceUntilReport ==
    \A h \in Homeworks :
        (Renders(h) /\ polled \subseteq {<<h>>} /\ nReport = 0) =>
            Occurrences(StatusText(h)) <= 1

C9_Witness ==
    /\ nReport = 0 /\ last.handler = "silent"
    /\ cur.stage = "done" /\ cur.first # <<>> /\ polled = {cur.first}
    /\ cur.sent = <<>>
    /\ Occurrences(StatusText(cur.first[1])) = 1

\* C10: every iteration, however it ends, is followed by exactly one sleep
\* of RETRY_PERIOD seconds before the next fetch.
C10_OneSleepPerIteration ==
    /\ pc = "try" => nSleep = nFetch
    /\ pc \in {"except", "finally"} => nSleep = nFetch - 1
    /\ pc # "stopped" => now = StartTime + RETRY_PERIOD * nSleep

C10_Witness ==
    /\ pc = "try" /\ nFetch = 3 /\ nSleep = 3
    /\ last.handler = "silent" /\ cur.handler = "report"

\* C11 as stated: the from_date of every request equals the cursor value
\* passed to get_api_answer, the loop's initial value included.
C11_FromDateIsCursor == cur.stage # "none" => cur.from_date = cur.arg

\* C11 amended: the from_date of a request equals the cursor value passed to
\* get_api_answer when that value is not zero; for the value 0, which is the
\* loop's initial cursor, it is the wall-clock time of the call.
C11_FromDateOrClock ==
    cur.stage # "none" =>
        /\ cur.arg # 0 => cur.from_date = cur.arg
        /\ cur.arg = 0 => cur.from_date = cur.clock

C11_Witness ==
    /\ nFetch = 1 /\ cur.stage # "none"
    /\ cur.arg = 0 /\ cur.from_date = StartTime

Returned(fn) == call.fn = fn /\ ret.state = "returned"

\* C12: check_response raises a type error for a non-mapping, the
\* empty-response error for a mapping without `homeworks` or without
\* `current_date` (whatever the type of `homeworks`), a type error for a
\* mapping with both keys whose `homeworks` is not a list, and otherwise
\* returns exactly the `homeworks` value.
C12_CheckResponseClassifies ==
    Returned("check_response") =>
        LET r == call.response
        IN  /\ r.type # "dict" => ret.exc.cls = "TypeError"
            /\ (r.type = "dict" /\ (~r.has_hw \/ ~r.has_cd)) =>
                  ret.exc.cls = "EmptyResponseFromAPI"
            /\ (r.type = "dict" /\ r.has_hw /\ r.has_cd
                /\ r.hw_type # "list") => ret.exc.cls = "TypeError"
            /\ (r.type = "dict" /\ r.has_hw /\ r.has_cd
                /\ r.hw_type = "list") =>
                  ret.exc = NoExc /\ ret.val = r.homeworks
            /\ ret.exc # NoExc => ret.val = <<>>

C12_Witness ==
    /\ Returned("check_response")
    /\ call.response.type = "dict" /\ call.response.has_hw
    /\ call.response.hw_type = "dict" /\ ~call.response.has_cd
    /\ ret.exc.cls = "EmptyResponseFromAPI"

\* the phrase of a known status, as the program's table spells it
Phrase(status) ==
    CASE status = <<"approved">> ->
            "Work checked: the reviewer liked everything. Hurray!"
      [] status = <<"reviewing">> -> "Work taken for review by the reviewer."
      [] status = <<"rejected">> -> "Work checked: the reviewer has remarks."

IsKnown(h) ==
    h.has_status /\ h.status \in {<<"approved">>, <<"reviewing">>, <<"rejected">>}

\* C13: parse_status raises a lookup error for a mapping without
\* `homework_name` whatever its status, a value error for one with a name
\* whose status is absent or unknown, and for a known status returns the
\* template with the name and that status's phrase; two mappings that differ
\* in name or status never render to the same text.
C13_ParseStatusClassifies ==
    Returned("parse_status") =>
        LET h == call.homework
        IN  /\ ~h.has_name => ret.exc.cls = "KeyError"
            /\ (h.has_name /\ ~IsKnown(h)) => ret.exc.cls = "ValueError"
            /\ (h.has_name /\ IsKnown(h)) =>
                  /\ ret.exc = NoExc
                  /\ ret.val = <<T_HEAD>> \o h.homework_name
                               \o <<T_MID, Phrase(h.status)>>
                  /\ \A g \in PureHomeworks :
                        (g.has_name /\ IsKnown(g)
                         /\ parse_status(g).val = ret.val) =>
                            /\ g.homework_name = h.homework_name
                            /\ g.status = h.status

C13_Witness ==
    /\ Returned("parse_status")
    /\ ~call.homework.has_name /\ call.homework.has_status
    /\ call.homework.status = <<"x">>
    /\ ret.exc.cls = "KeyError"

\* the message of an iteration that rendered one without error
Message == IF cur.first = <<>> THEN <<T_NO_NEW>> ELSE StatusText(cur.first[1])

\* the text the catch-all handler builds from an exception
ErrorText(e) == <<T_FAIL>> \o e.text

\* C14: in an iteration that renders a message without error, a send attempt
\* is made if and only if the message differs from the stored previous text
\* and is not a substring of it; the stored text becomes the message exactly
\* when the attempt is made and stays as it was otherwise.
C14_DedupDecides ==
    cur.stage = "done" =>
        LET m == Message
            p == cur.prev_before
        IN  /\ (cur.sent # <<>>) <=> (m # p /\ ~IsIn(m, p))
            /\ cur.sent # <<>> => (cur.sent = <<m>> /\ prev_msg = m)
            /\ cur.sent = <<>> => prev_msg = p

C14_Witness ==
    /\ cur.stage = "done" /\ cur.sent # <<>>
    /\ cur.prev_before # <<>> /\ prev_msg = Message

\* C15: an iteration makes at most one send attempt, and one whose send
\* attempt was made by the try body ends the same way whether the delivery
\* succeeded or failed: the attempted text is stored, the cursor is the
\* advanced one, no handler runs, and the sleep follows.
C15_DeliveryFailureLoggedOnly ==
    /\ Len(cur.sent) <= 1
    /\ (cur.stage = "done" /\ cur.sent # <<>>) =>
          /\ prev_msg = cur.sent[1]
          /\ current_timestamp = IF cur.has_cd THEN cur.current_date
                                               ELSE cur.clock
          /\ cur.handler = "none" /\ exc = NoExc
          /\ pc \in {"finally", "try"}
          /\ pc = "try" => nSleep = nFetch

C15_Witness ==
    /\ cur.stage = "done" /\ cur.sent # <<>>
    /\ lastDelivery = "telegram.error.TelegramError"
    /\ pc = "try" /\ prev_msg = cur.sent[1]

\* C16: an iteration whose error is handled as do-not-alert makes no send
\* attempt, leaves the stored previous text as it was, and goes on to the
\* sleep and the next poll.
C16_SilentErrorFrame ==
    cur.handler = "silent" =>
        /\ cur.sent = <<>>
        /\ prev_msg = cur.prev_before
        /\ exc = NoExc
        /\ pc \in {"finally", "try"}
        /\ pc = "try" => nSleep = nFetch

C16_Witness ==
    /\ cur.handler = "silent" /\ cur.prev_before # <<>>
    /\ pc = "try" /\ nFetch < MaxPolls

\* C17 as stated: every iteration that ends in the catch-all handler makes a
\* send attempt carrying the error's text.
C17_AlwaysReports ==
    cur.handler = "report" => cur.sent = <<ErrorText(cur.error)>>

\* C17 amended: an iteration that ends in the catch-all handler makes a send
\* attempt carrying the error's text unless the stored previous text
\* contains that text, in which case it only logs; a failure of the delivery
\* is only logged and the loop goes on.
C17_ReportsUnlessContained ==
    cur.handler = "report" =>
        /\ cur.sent = IF IsIn(ErrorText(cur.error), cur.prev_before)
                      THEN <<>> ELSE <<ErrorText(cur.error)>>
        /\ exc = NoExc
        /\ pc \in {"finally", "try"}

C17_Witness ==
    /\ cur.handler = "report" /\ cur.sent = <<>>
    /\ IsIn(ErrorText(cur.error), cur.prev_before)

\* C18 as stated: whenever an iteration ends in an error caught by one of
\* the loop's handlers, the stored previous text afterwards is that error's
\* text.
C18_ErrorBecomesPrev ==
    cur.handler \in {"silent", "report"} => prev_msg = ErrorText(cur.error)

\* C18 amended: whenever an iteration ends in the catch-all handler, the
\* stored previous text afterwards is that error's text, whether or not a
\* notification of it was attempted or delivered, and the next iteration
\* compares against it; an error handled as do-not-alert is not stored.
C18_ReportedErrorBecomesPrev ==
    /\ cur.handler = "report" => prev_msg = ErrorText(cur.error)
    /\ (last.handler = "report" /\ cur.stage # "none") =>
          cur.prev_before = ErrorText(last.error)
    /\ cur.handler = "silent" => prev_msg # ErrorText(cur.error)

C18_Witness ==
    /\ cur.handler = "report" /\ cur.sent = <<>>
    /\ prev_msg # cur.prev_before

\* C19 as stated: an iteration whose fetched response fails validation (not
\* a mapping, a required key missing, or `homeworks` not a list) leaves the
\* cursor unchanged.
C19_InvalidKeepsCursor ==
    cur.stage \in {"advance", "validate"} =>
        current_timestamp = cur.cursor_before

\* C20: when two consecutive iterations end in the catch-all handler with
\* the same error text, the second makes no send attempt; in general the
\* catch-all handler attempts the notification if and only if the error text
\* is not a substring of the stored previous text.
C20_NoRepeatedReport ==
    /\ (last.handler = "report" /\ cur.handler = "report"
        /\ cur.error = last.error) => cur.sent = <<>>
    /\ cur.handler = "report" =>
          ((cur.sent # <<>>) <=> ~IsIn(ErrorText(cur.error), cur.prev_before))

C20_Witness ==
    /\ last.handler = "report" /\ cur.handler = "report"
    /\ cur.error = last.error
    /\ last.sent # <<>> /\ cur.sent = <<>>

====
